---- MODULE Spec2Model ----
(***************************************************************************)
(* A model of the jito-rust-rpc client:                                    *)
(*   - src/src/http_client.rs: HttpClient, a pool of reqwest clients bound *)
(*     to local addresses, with round-robin / random-no-repeat selection   *)
(*     behind two mutexes, used by several concurrent callers;             *)
(*   - src/examples/basic_bundle.rs: the two-phase bundle confirmation     *)
(*     polling (in-flight statuses, then final bundle statuses).           *)
(***************************************************************************)
EXTENDS Integers, Sequences, FiniteSets, TLC

(***************************************************************************)
(* Bounds of the model.                                                    *)
(***************************************************************************)
\* the largest address list handed to HttpClient::new
MaxIps == 3
\* the number of concurrent callers of get_client
NumCallers == 2
\* the number of get_client calls started in one behaviour
MaxCalls == 6

Callers == 1..NumCallers

VARIABLES
    \* ---- HttpClient (src/src/http_client.rs) ----
    clients,            \* Arc<Vec<Client>>: the local address each client is bound to (0: unbound)
    algorithm,          \* IpSelectAlgorithm
    round_robin_index,  \* Mutex<usize>: the value
    last_random_ip,     \* Mutex<Option<usize>>: the value, None as {} and Some(i) as {i}
    rr_lock,            \* the callers holding the guard of round_robin_index
    rnd_lock,           \* the callers holding the guard of last_random_ip
    pc,                 \* each caller's position in get_client / select_client
    selected,           \* each caller's local `selected` / `index`
    returned,           \* the last value get_client returned: the index used and the client
    calls,              \* get_client calls started so far
    log,                \* the indices selected, in the order the selections were made
    \* ---- bundle confirmation (src/examples/basic_bundle.rs) ----
    phase,              \* "inflight" (main's loop), "final" (check_final_bundle_status), "done"
    attempt,            \* the loop variable `attempt` of the current phase
    outcome,            \* main's result: "none" while running, "Ok", or the error's message
    shown,              \* the transaction id print_transaction_url logged, None as {}
    polls1,             \* get_in_flight_bundle_statuses queries issued
    polls2,             \* get_bundle_statuses queries issued
    lastResp,           \* what the most recent status query returned
    lastPoll,           \* the phase and attempt of the most recent status query
    landedAt,           \* polls1 when Landed was first observed, 0 before
    failedAt,           \* polls1 when Failed was first observed, 0 before
    transientSeen,      \* some in-flight query observed none of Pending, Landed, Failed
    invalidSeen,        \* some in-flight query observed Invalid or an unrecognized status string
    finalOtherSeen,     \* some final query observed other than confirmed or finalized with a clean err
    execErrSeen,        \* some final query observed a status whose err is present and not null
    \* ---- HttpClient::new (src/src/http_client.rs) ----
    new_ips,            \* the argument `ips`
    new_algorithm,      \* the argument `algorithm`
    new_fails,          \* the addresses for which ClientBuilder::build returns Err
    new_result,         \* what new returned: {} before it returns, then Ok or Err(BindFailed)
    \* ---- transaction confirmation (src/examples/basic_txn.rs) ----
    txn_pc,             \* "loop" (the for loop), "after" (past the loop), "done" (main returned)
    txn_attempt,        \* the loop variable `attempt`
    txn_confirmed,      \* the local `confirmed`
    txn_outcome,        \* main's result, TxnRunning until it returns
    txn_polls,          \* get_signature_status queries issued
    txn_last            \* what the most recent get_signature_status returned

poolVars == <<clients, algorithm, round_robin_index, last_random_ip, rr_lock,
              rnd_lock, pc, selected, returned, calls, log>>

pollVars == <<phase, attempt, outcome, shown, polls1, polls2, lastResp, lastPoll,
              landedAt, failedAt, transientSeen, invalidSeen, finalOtherSeen,
              execErrSeen>>

newVars == <<new_ips, new_algorithm, new_fails, new_result>>

txnVars == <<txn_pc, txn_attempt, txn_confirmed, txn_outcome, txn_polls, txn_last>>

vars == <<poolVars, pollVars, newVars, txnVars>>

(***************************************************************************)
(* HttpClient::new                                                         *)
(***************************************************************************)
\* the address list: n distinct local addresses, named 1..n
Ips(n) == [i \in 1..n |-> i]

\* lines 32-43: one unbound client for an empty list, else one client per address, in order
BuildClients(ips) ==
    IF ips = <<>> THEN <<0>> ELSE [i \in 1..Len(ips) |-> ips[i]]

Algorithms == {"RoundRobin", "Random"}

\* every address builds a client: the failing ones are left out of the pool
CollectSkipsFailures(ips, fails) ==
    [ok |-> TRUE, clients |-> SelectSeq(ips, LAMBDA ip : ip \notin fails), err |-> {}]

\* lines 35-42: map each address to its client and collect into Result<Vec<_>, _>,
\* which stops at the first Err and drops the clients built so far
RECURSIVE Collect(_, _)
Collect(ips, fails) ==
    IF ips = <<>> THEN [ok |-> TRUE, clients |-> <<>>, err |-> {}]
    ELSE IF Head(ips) \in fails
    THEN [ok |-> FALSE, clients |-> <<>>, err |-> {Head(ips)}]
    ELSE LET rest == Collect(Tail(ips), fails)
         IN IF rest.ok
            THEN [ok |-> TRUE, clients |-> <<Head(ips)>> \o rest.clients, err |-> {}]
            ELSE rest

\* lines 32-43: `clients`, or the BindFailed the `?` returns
NewClients(ips, fails) ==
    IF ips = <<>> THEN [ok |-> TRUE, clients |-> BuildClients(ips), err |-> {}]
    ELSE Collect(ips, fails)

\* the result of new: {} until it returns, then Ok(Self { .. }) or Err(BindFailed(ip, _))
NewPending == {}
NewOk == {[ok |-> TRUE, err |-> {}]}
BindFailed(ip) == {[ok |-> FALSE, err |-> {ip}]}

PoolInit ==
    /\ \E n \in 0..MaxIps : clients = BuildClients(Ips(n))
    /\ algorithm \in Algorithms
    /\ round_robin_index = 0
    /\ last_random_ip = {}
    /\ rr_lock = {}
    /\ rnd_lock = {}
    /\ pc = [c \in Callers |-> "idle"]
    /\ selected = [c \in Callers |-> 0]
    /\ returned = <<>>
    /\ calls = 0
    /\ log = <<>>

(***************************************************************************)
(* HttpClient::get_client and select_client, one step per caller position  *)
(***************************************************************************)
\* a mutex without mutual exclusion
LockAvailableAlways(holders) == TRUE

\* Mutex::lock returns once no other guard is alive
LockAvailable(holders) == holders = {}

\* the cursor stays where it is
NextRoundRobinStuck(idx, n) == idx

\* the cursor advances by two
NextRoundRobinSkips(idx, n) == (idx + 2) % n

\* line 67: (*idx + 1) % self.clients.len()
NextRoundRobin(idx, n) == (idx + 1) % n

\* no index is filtered out
CandidatesAll(last, n) == 0..(n - 1)

\* lines 72-74: (0..len).filter(|&i| Some(i) != *last_idx)
Candidates(last, n) == {i \in 0..(n - 1) : i \notin last}

\* lines 76-80: gen_range(0..len) when there is no candidate, else one of the candidates
RandomChoices(last, n) ==
    IF Candidates(last, n) = {} THEN 0..(n - 1) ELSE Candidates(last, n)

\* every pool goes through select_client
UsesSelectAlways(n) == TRUE

\* lines 54-58: match self.clients.len(): 1 returns clients[0], more call select_client
UsesSelect(n) == n > 1

\* line 55: 0 => unreachable!()
IsUnreachable(n) == n = 0

\* line 55: get_client on a pool without a client panics
GetClientEmpty(c) ==
    /\ pc[c] = "idle"
    /\ calls < MaxCalls
    /\ IsUnreachable(Len(clients))
    /\ calls' = calls + 1
    /\ pc' = [pc EXCEPT ![c] = "panicked"]
    /\ UNCHANGED <<clients, algorithm, round_robin_index, last_random_ip,
                   rr_lock, rnd_lock, selected, returned, log>>
    /\ UNCHANGED <<pollVars, newVars, txnVars>>

\* line 56: a pool of one client returns it, touching neither mutex
GetClientSingle(c) ==
    /\ pc[c] = "idle"
    /\ calls < MaxCalls
    /\ ~IsUnreachable(Len(clients))
    /\ ~UsesSelect(Len(clients))
    /\ calls' = calls + 1
    /\ returned' = <<0, clients[1]>>
    /\ log' = Append(log, 0)
    /\ UNCHANGED <<clients, algorithm, round_robin_index, last_random_ip,
                   rr_lock, rnd_lock, pc, selected>>
    /\ UNCHANGED <<pollVars, newVars, txnVars>>

\* line 57: a pool of several clients goes on to select_client, up to its lock()
Call(c) ==
    /\ pc[c] = "idle"
    /\ calls < MaxCalls
    /\ UsesSelect(Len(clients))
    /\ calls' = calls + 1
    /\ pc' = [pc EXCEPT ![c] = "calling"]
    /\ UNCHANGED <<clients, algorithm, round_robin_index, last_random_ip,
                   rr_lock, rnd_lock, selected, returned, log>>
    /\ UNCHANGED <<pollVars, newVars, txnVars>>

\* lines 65, 71: lock() returns with the guard of the configured algorithm's mutex
Lock(c) ==
    /\ pc[c] = "calling"
    /\ IF algorithm = "RoundRobin"
       THEN /\ LockAvailable(rr_lock)
            /\ rr_lock' = rr_lock \cup {c}
            /\ UNCHANGED rnd_lock
       ELSE /\ LockAvailable(rnd_lock)
            /\ rnd_lock' = rnd_lock \cup {c}
            /\ UNCHANGED rr_lock
    /\ pc' = [pc EXCEPT ![c] = "locked"]
    /\ UNCHANGED <<clients, algorithm, round_robin_index, last_random_ip,
                   selected, returned, calls, log>>
    /\ UNCHANGED <<pollVars, newVars, txnVars>>

\* lines 66, 72-80: read the rotation state and compute `selected`
Select(c) ==
    /\ pc[c] = "locked"
    /\ \E s \in IF algorithm = "RoundRobin"
                THEN {round_robin_index}
                ELSE RandomChoices(last_random_ip, Len(clients)) :
          /\ selected' = [selected EXCEPT ![c] = s]
          /\ log' = Append(log, s)
    /\ pc' = [pc EXCEPT ![c] = "selected"]
    /\ UNCHANGED <<clients, algorithm, round_robin_index, last_random_ip,
                   rr_lock, rnd_lock, returned, calls>>
    /\ UNCHANGED <<pollVars, newVars, txnVars>>

\* lines 67, 82: write the rotation state back
Write(c) ==
    /\ pc[c] = "selected"
    /\ IF algorithm = "RoundRobin"
       THEN /\ round_robin_index' = NextRoundRobin(round_robin_index, Len(clients))
            /\ UNCHANGED last_random_ip
       ELSE /\ last_random_ip' = {selected[c]}
            /\ UNCHANGED round_robin_index
    /\ pc' = [pc EXCEPT ![c] = "written"]
    /\ UNCHANGED <<clients, algorithm, rr_lock, rnd_lock, selected, returned,
                   calls, log>>
    /\ UNCHANGED <<pollVars, newVars, txnVars>>

\* the guard outlives the match arm
ReleaseLeaks(holders, c) == holders

\* lines 69, 84: MutexGuard::drop
Release(holders, c) == holders \ {c}

\* lines 69, 84: the guard is dropped at the end of the match arm
Unlock(c) ==
    /\ pc[c] = "written"
    /\ rr_lock' = Release(rr_lock, c)
    /\ rnd_lock' = Release(rnd_lock, c)
    /\ pc' = [pc EXCEPT ![c] = "unlocked"]
    /\ UNCHANGED <<clients, algorithm, round_robin_index, last_random_ip,
                   selected, returned, calls, log>>
    /\ UNCHANGED <<pollVars, newVars, txnVars>>

\* lines 86-87: self.clients[index].clone()
Return(c) ==
    /\ pc[c] = "unlocked"
    /\ returned' = <<selected[c], clients[selected[c] + 1]>>
    /\ selected' = [selected EXCEPT ![c] = 0]
    /\ pc' = [pc EXCEPT ![c] = "idle"]
    /\ UNCHANGED <<clients, algorithm, round_robin_index, last_random_ip,
                   rr_lock, rnd_lock, calls, log>>
    /\ UNCHANGED <<pollVars, newVars, txnVars>>

PoolNext ==
    \E c \in Callers :
        \/ GetClientSingle(c)
        \/ Call(c)
        \/ Lock(c)
        \/ Select(c)
        \/ Write(c)
        \/ Unlock(c)
        \/ Return(c)

(***************************************************************************)
(* serde_json::Value, as far as the status decoding reads it               *)
(***************************************************************************)
JNull == [t |-> "null"]
JStr(x) == [t |-> "str", s |-> x]
JNum(x) == [t |-> "num", n |-> x]
JArr(x) == [t |-> "arr", a |-> x]
JObj(x) == [t |-> "obj", o |-> x]
NoFields == [k \in {} |-> JNull]

\* Value::get(key): Some only for an object holding the key (Option as a set)
Get(v, key) == IF v.t = "obj" /\ key \in DOMAIN v.o THEN {v.o[key]} ELSE {}
\* Value::as_array
AsArray(v) == IF v.t = "arr" THEN {v.a} ELSE {}
\* Value::as_str
AsStr(v) == IF v.t = "str" THEN {v.s} ELSE {}
\* slice::first
First(xs) == IF xs = <<>> THEN {} ELSE {xs[1]}
\* value[key]: Null for a missing key or a value that is no object
Index(v, key) == IF v.t = "obj" /\ key \in DOMAIN v.o THEN v.o[key] ELSE JNull
\* Value::is_null
IsNull(v) == v.t = "null"
\* Option::and_then over the accessors above (None as {}, Some(x) as {x})
ThenGet(opt, key) == UNION {Get(v, key) : v \in opt}
ThenAsArray(opt) == UNION {AsArray(v) : v \in opt}
ThenAsStr(opt) == UNION {AsStr(v) : v \in opt}
ThenFirst(opt) == UNION {First(xs) : xs \in opt}
\* lines 241-243: arr.iter().filter_map(|v| v.as_str().map(String::from)).collect()
RECURSIVE FilterMapStr(_)
FilterMapStr(xs) ==
    IF xs = <<>> THEN <<>>
    ELSE (IF AsStr(xs[1]) = {} THEN <<>> ELSE <<xs[1].s>>) \o FilterMapStr(Tail(xs))

(***************************************************************************)
(* What a status query can return: Result<Value, Error>                    *)
(***************************************************************************)
TransportError == [ok |-> FALSE, body |-> JNull]
Reply(v) == [ok |-> TRUE, body |-> v]
ValueReply(v) == Reply(JObj("result" :> JObj("value" :> v)))

\* the envelopes that carry no status array element
BadEnvelopes ==
    { Reply(JObj(NoFields)),
      Reply(JObj("error" :> JStr("rate limited"))),
      Reply(JObj("result" :> JNull)),
      Reply(JObj("result" :> JObj(NoFields))),
      ValueReply(JNull),
      ValueReply(JArr(<<>>)) }

InFlightStatusStrings == {"Landed", "Pending", "Failed", "Invalid", "Dropped"}
InFlightReply(st) == ValueReply(JArr(<<JObj("status" :> JStr(st))>>))

InFlightResponses ==
    {TransportError} \cup BadEnvelopes
    \cup { ValueReply(JArr(<<JObj(NoFields)>>)),
           ValueReply(JArr(<<JObj("status" :> JNum(1))>>)) }
    \cup { InFlightReply(st) : st \in InFlightStatusStrings }

\* a field of the status object: absent ({}) or present with a value
TierFields == {{}, {JNum(1)}, {JStr("processed")}, {JStr("confirmed")}, {JStr("finalized")}}
ErrFields ==
    {{}, {JNull}, {JObj("Ok" :> JNull)}, {JObj("Ok" :> JNum(1))},
     {JObj("Err" :> JStr("InstructionError"))}, {JStr("AccountInUse")}}
TxFields ==
    {{}, {JNull}, {JArr(<<>>)}, {JArr(<<JStr("sig1"), JStr("sig2")>>)},
     {JArr(<<JNum(1), JStr("sig2")>>)}}

Field(key, opt) == IF opt = {} THEN NoFields ELSE key :> (CHOOSE v \in opt : TRUE)
FinalReply(tier, err, txs) ==
    ValueReply(JArr(<<JObj(Field("confirmation_status", tier) @@ Field("err", err)
                            @@ Field("transactions", txs))>>))

FinalResponses ==
    {TransportError} \cup BadEnvelopes
    \cup { FinalReply(tier, err, {}) : tier \in TierFields, err \in ErrFields }
    \cup { FinalReply({JStr("finalized")}, err, txs) : err \in ErrFields, txs \in TxFields }

NoResponse == [ok |-> FALSE, body |-> JStr("no query yet")]

(***************************************************************************)
(* main: the in-flight polling loop                                        *)
(***************************************************************************)
max_retries == 30
final_max_retries == 10

OutcomeNone == "none"
OutcomeOk == "Ok"
ErrTransport == "status query failed"
ErrFailed == "Bundle status returned Failed"
ErrInFlightExhausted == "Failed to confirm bundle status after 30 attempts"
ErrFinalExhausted == "Failed to get finalized status after 10 attempts"
ErrParse == "Failed to parse bundle status"
ErrTransaction == "Transaction encountered an error"

\* no message names a number of attempts
CarriedAttemptNone(o) == {}

\* lines 184, 221: the number of attempts an error's message names ("after {} attempts")
CarriedAttempt(o) ==
    IF o = ErrInFlightExhausted THEN {max_retries}
    ELSE IF o = ErrFinalExhausted THEN {final_max_retries}
    ELSE {}

\* lines 147, 184, 221, 255: the status an error's message names
CarriedStatus(o) == IF o = ErrFailed THEN {"Failed"} ELSE {}

\* a failed query is retried
PropagatesNever(resp) == FALSE

\* `.await?`: an Err of the query leaves the function with that error
Propagates(resp) == ~resp.ok

\* the range stops one short
HasNextExclusive(a, max) == a + 1 < max

\* `for attempt in 1..=max_retries`: there is an attempt after attempt a
HasNext(a, max) == a + 1 <= max

\* lines 132-177: the arm of the nested decoding the response ends in
InFlightArm(body) ==
    LET result == Get(body, "result")
        value == ThenGet(result, "value")
        statuses == ThenAsArray(value)
        bundle_status == ThenFirst(statuses)
        status == ThenGet(bundle_status, "status")
        str == ThenAsStr(status)
    IN IF result = {} THEN (IF Get(body, "error") # {} THEN "relay error" ELSE "bad response")
       ELSE IF value = {} THEN "no value"
       ELSE IF statuses = {} THEN "bad value"
       ELSE IF bundle_status = {} THEN "no bundle status"
       ELSE IF status = {} THEN "no status field"
       ELSE IF str = {} THEN "unparsed"
       ELSE IF str = {"Landed"} THEN "Landed"
       ELSE IF str = {"Pending"} THEN "Pending"
       ELSE IF str = {"Failed"} THEN "Failed"
       ELSE IF str = {"Invalid"} THEN "Invalid"
       ELSE "unexpected"

\* Landed is logged and the in-flight polling goes on
InFlightEffectLandedContinues(arm) ==
    IF arm = "Failed" THEN "abort" ELSE "continue"

\* Failed is logged and polling goes on
InFlightEffectFailedContinues(arm) ==
    IF arm = "Landed" THEN "advance" ELSE "continue"

\* Invalid is fatal, like Failed
InFlightEffectInvalidAborts(arm) ==
    IF arm = "Landed" THEN "advance"
    ELSE IF arm \in {"Failed", "Invalid"} THEN "abort"
    ELSE "continue"

\* Pending is taken for Landed
InFlightEffectPendingAdvances(arm) ==
    IF arm \in {"Landed", "Pending"} THEN "advance"
    ELSE IF arm = "Failed" THEN "abort"
    ELSE "continue"

\* lines 138-177: what the arm does: Landed returns check_final_bundle_status,
\* Failed returns the error, every other arm only logs
InFlightEffect(arm) ==
    IF arm = "Landed" THEN "advance"
    ELSE IF arm = "Failed" THEN "abort"
    ELSE "continue"

\* lines 130-177: what one response makes the iteration do
InFlightOutcome(resp) ==
    IF Propagates(resp) THEN "error" ELSE InFlightEffect(InFlightArm(resp.body))

InFlightOutcomes == [resp \in InFlightResponses |-> InFlightOutcome(resp)]

\* lines 127-184: one iteration of the loop, with the return after the last one
InFlightPoll ==
    /\ phase = "inflight"
    /\ attempt <= max_retries
    /\ \E resp \in InFlightResponses :
         LET eff == InFlightOutcomes[resp]
         IN /\ lastResp' = resp
            /\ lastPoll' = [phase |-> 1, attempt |-> attempt]
            /\ polls1' = polls1 + 1
            /\ landedAt' = IF landedAt = 0 /\ resp = InFlightReply("Landed")
                           THEN polls1 + 1 ELSE landedAt
            /\ failedAt' = IF failedAt = 0 /\ resp = InFlightReply("Failed")
                           THEN polls1 + 1 ELSE failedAt
            /\ transientSeen' =
                 (transientSeen \/ resp \notin {InFlightReply("Landed"),
                                                InFlightReply("Pending"),
                                                InFlightReply("Failed")})
            /\ invalidSeen' =
                 (invalidSeen \/ resp \in {InFlightReply("Invalid"),
                                           InFlightReply("Dropped")})
            /\ CASE eff = "error" ->
                      phase' = "done" /\ outcome' = ErrTransport /\ UNCHANGED attempt
                 [] eff = "advance" ->
                      phase' = "final" /\ attempt' = 1 /\ UNCHANGED outcome
                 [] eff = "abort" ->
                      phase' = "done" /\ outcome' = ErrFailed /\ UNCHANGED attempt
                 [] OTHER ->
                      IF HasNext(attempt, max_retries)
                      THEN attempt' = attempt + 1 /\ UNCHANGED <<phase, outcome>>
                      ELSE /\ phase' = "done"
                           /\ outcome' = ErrInFlightExhausted
                           /\ UNCHANGED attempt
    /\ UNCHANGED <<shown, polls2, finalOtherSeen, execErrSeen>>
    /\ UNCHANGED <<poolVars, newVars, txnVars>>

(***************************************************************************)
(* check_final_bundle_status                                               *)
(***************************************************************************)
\* lines 224-246: None of the chain is the parse error, else the three fields decoded
GetBundleStatus(body) ==
    LET result == Get(body, "result")
        value == ThenGet(result, "value")
        statuses == ThenAsArray(value)
        first == ThenFirst(statuses)
    IN IF first = {} THEN [ok |-> FALSE]
       ELSE LET b == CHOOSE x \in first : TRUE
            IN [ok |-> TRUE,
                confirmation_status |->
                    ThenAsStr(Get(b, "confirmation_status")),
                err |-> Get(b, "err"),
                transactions |->
                    { FilterMapStr(arr)
                      : arr \in ThenAsArray(Get(b, "transactions")) }]

\* any payload that is present and not null is an error
CheckTransactionErrorStrict(bs) ==
    \A e \in bs.err : IsNull(e)

\* lines 248-260: Ok unless err is Some and err["Ok"] is not null
CheckTransactionError(bs) ==
    \A e \in bs.err : IsNull(Index(e, "Ok"))

\* the last transaction id is logged
PrintTransactionUrlLast(bs) ==
    UNION {IF xs = <<>> THEN {} ELSE {xs[Len(xs)]} : xs \in bs.transactions}

\* lines 262-272: the first transaction id, when there is one
PrintTransactionUrl(bs) ==
    ThenFirst(bs.transactions)

\* confirmed returns success like finalized
FinalEffectConfirmedReturns(bs) ==
    IF bs.confirmation_status \in {{"confirmed"}, {"finalized"}}
    THEN (IF CheckTransactionError(bs) THEN "success" ELSE "exec error")
    ELSE "continue"

\* an unrecognized tier is reported as a transaction error
FinalEffectOtherTierFails(bs) ==
    IF bs.confirmation_status = {"confirmed"}
    THEN (IF CheckTransactionError(bs) THEN "continue" ELSE "exec error")
    ELSE IF bs.confirmation_status = {"finalized"}
    THEN (IF CheckTransactionError(bs) THEN "success" ELSE "exec error")
    ELSE IF bs.confirmation_status = {} THEN "continue"
    ELSE "exec error"

\* lines 197-214: what the match on confirmation_status does
FinalEffect(bs) ==
    IF bs.confirmation_status = {"confirmed"}
    THEN (IF CheckTransactionError(bs) THEN "continue" ELSE "exec error")
    ELSE IF bs.confirmation_status = {"finalized"}
    THEN (IF CheckTransactionError(bs) THEN "success" ELSE "exec error")
    ELSE "continue"

\* lines 194-214: what one response makes the iteration do, and the id it logs
FinalOutcome(resp) ==
    LET bs == GetBundleStatus(resp.body)
        eff == IF Propagates(resp) THEN "error"
               ELSE IF ~bs.ok THEN "parse error"
               ELSE FinalEffect(bs)
    IN [eff |-> eff, url |-> IF eff = "success" THEN PrintTransactionUrl(bs) ELSE {}]

FinalOutcomes == [resp \in FinalResponses |-> FinalOutcome(resp)]

\* the final-status replies with tier confirmed or finalized and err absent or null
CleanFinalReplies ==
    { FinalReply({JStr(tier)}, err, txs) :
         tier \in {"confirmed", "finalized"}, err \in {{}, {JNull}}, txs \in TxFields }

\* the final-status replies whose status carries an err that is present and not null
ExecErrorReplies ==
    { FinalReply(tier, err, txs) :
         tier \in TierFields, err \in ErrFields \ {{}, {JNull}}, txs \in TxFields }

\* lines 191-221: one iteration of the loop, with the return after the last one
FinalPoll ==
    /\ phase = "final"
    /\ attempt <= final_max_retries
    /\ \E resp \in FinalResponses :
         LET eff == FinalOutcomes[resp].eff
         IN /\ lastResp' = resp
            /\ lastPoll' = [phase |-> 2, attempt |-> attempt]
            /\ polls2' = polls2 + 1
            /\ finalOtherSeen' = (finalOtherSeen \/ resp \notin CleanFinalReplies)
            /\ execErrSeen' = (execErrSeen \/ resp \in ExecErrorReplies)
            /\ CASE eff = "error" ->
                      /\ phase' = "done" /\ outcome' = ErrTransport
                      /\ UNCHANGED <<attempt, shown>>
                 [] eff = "parse error" ->
                      /\ phase' = "done" /\ outcome' = ErrParse
                      /\ UNCHANGED <<attempt, shown>>
                 [] eff = "exec error" ->
                      /\ phase' = "done" /\ outcome' = ErrTransaction
                      /\ UNCHANGED <<attempt, shown>>
                 [] eff = "success" ->
                      /\ phase' = "done" /\ outcome' = OutcomeOk
                      /\ shown' = FinalOutcomes[resp].url
                      /\ UNCHANGED attempt
                 [] OTHER ->
                      IF HasNext(attempt, final_max_retries)
                      THEN attempt' = attempt + 1 /\ UNCHANGED <<phase, outcome, shown>>
                      ELSE /\ phase' = "done"
                           /\ outcome' = ErrFinalExhausted
                           /\ UNCHANGED <<attempt, shown>>
    /\ UNCHANGED <<polls1, landedAt, failedAt, transientSeen, invalidSeen>>
    /\ UNCHANGED <<poolVars, newVars, txnVars>>

PollInit ==
    /\ phase = "inflight"
    /\ attempt = 1
    /\ outcome = OutcomeNone
    /\ shown = {}
    /\ polls1 = 0
    /\ polls2 = 0
    /\ lastResp = NoResponse
    /\ lastPoll = [phase |-> 0, attempt |-> 0]
    /\ landedAt = 0
    /\ failedAt = 0
    /\ transientSeen = FALSE
    /\ invalidSeen = FALSE
    /\ finalOtherSeen = FALSE
    /\ execErrSeen = FALSE

PollNext ==
    \/ InFlightPoll
    \/ FinalPoll

\* the pool of PoolInit is the one new returned for its address list
NewDone ==
    /\ new_ips = (IF clients = <<0>> THEN <<>> ELSE clients)
    /\ new_algorithm = algorithm
    /\ new_fails = {}
    /\ new_result = NewOk

(***************************************************************************)
(* basic_txn.rs: confirmation of a plain transaction by its signature      *)
(***************************************************************************)
\* line 142
txn_max_retries == 30

\* what get_signature_status returns: Err (the `?`), Ok(None), Ok(Some(Ok(()))),
\* Ok(Some(Err(e)))
TxnErrors == {"InstructionError", "AccountInUse"}
TxnClientError == [t |-> "Err", e |-> {}]
TxnNone == [t |-> "None", e |-> {}]
TxnSomeOk == [t |-> "Some(Ok)", e |-> {}]
TxnSomeErr(e) == [t |-> "Some(Err)", e |-> {e}]
TxnResponses == {TxnClientError, TxnNone, TxnSomeOk} \cup {TxnSomeErr(e) : e \in TxnErrors}
TxnNoResponse == [t |-> "no query yet", e |-> {}]

\* main's results
TxnRunning == [msg |-> "none", e |-> {}]
TxnOk == [msg |-> "Ok", e |-> {}]
TxnErrClient == [msg |-> "get_signature_status failed", e |-> {}]
TxnErrFailed(e) == [msg |-> "Transaction failed", e |-> e]
TxnErrNotConfirmed == [msg |-> "Transaction not confirmed after 30 attempts", e |-> {}]

\* an execution error is taken for not yet known
TxnArmErrRetried(resp) ==
    IF resp.t = "Err" THEN "error"
    ELSE IF resp.t = "Some(Ok)" THEN "break"
    ELSE "sleep"

\* lines 146-159: the `?` and the arm of the match
TxnArm(resp) ==
    IF resp.t = "Err" THEN "error"
    ELSE IF resp.t = "Some(Ok)" THEN "break"
    ELSE IF resp.t = "Some(Err)" THEN "return"
    ELSE "sleep"

\* lines 145-160: one iteration of the loop
TxnPoll ==
    /\ txn_pc = "loop"
    /\ \E resp \in TxnResponses :
         /\ txn_last' = resp
         /\ txn_polls' = txn_polls + 1
         /\ CASE TxnArm(resp) = "error" ->
                   /\ txn_pc' = "done" /\ txn_outcome' = TxnErrClient
                   /\ UNCHANGED <<txn_attempt, txn_confirmed>>
              [] TxnArm(resp) = "break" ->
                   /\ txn_confirmed' = TRUE /\ txn_pc' = "after"
                   /\ UNCHANGED <<txn_attempt, txn_outcome>>
              [] TxnArm(resp) = "return" ->
                   /\ txn_pc' = "done" /\ txn_outcome' = TxnErrFailed(resp.e)
                   /\ UNCHANGED <<txn_attempt, txn_confirmed>>
              [] OTHER ->
                   /\ IF HasNext(txn_attempt, txn_max_retries)
                      THEN txn_attempt' = txn_attempt + 1 /\ UNCHANGED txn_pc
                      ELSE txn_pc' = "after" /\ UNCHANGED txn_attempt
                   /\ UNCHANGED <<txn_confirmed, txn_outcome>>
    /\ UNCHANGED <<poolVars, pollVars, newVars>>

\* lines 162-168: past the loop
TxnFinish ==
    /\ txn_pc = "after"
    /\ txn_pc' = "done"
    /\ txn_outcome' = (IF ~txn_confirmed THEN TxnErrNotConfirmed ELSE TxnOk)
    /\ UNCHANGED <<txn_attempt, txn_confirmed, txn_polls, txn_last>>
    /\ UNCHANGED <<poolVars, pollVars, newVars>>

\* lines 142-145: before the first iteration
TxnInit ==
    /\ txn_pc = "loop"
    /\ txn_attempt = 1
    /\ txn_confirmed = FALSE
    /\ txn_outcome = TxnRunning
    /\ txn_polls = 0
    /\ txn_last = TxnNoResponse

TxnNext ==
    \/ TxnPoll
    \/ TxnFinish

Init == PoolInit /\ PollInit /\ NewDone /\ TxnInit

Next == PoolNext

Spec == Init /\ [][Next]_vars

\* a fair scheduler: a caller inside get_client keeps running, and a caller blocked in
\* lock() gets the mutex if it is free again and again
FairSpec ==
    /\ Init
    /\ [][Next]_vars
    /\ \A c \in Callers :
          /\ SF_vars(Lock(c))
          /\ WF_vars(Select(c))
          /\ WF_vars(Write(c))
          /\ WF_vars(Unlock(c))
          /\ WF_vars(Return(c))

\* lines 15-28: HttpClient::default(), from #[derive(Default)]: no client, the
\* #[default] algorithm, cursor 0, no last index; new was not called
DefaultInit ==
    /\ clients = <<>>
    /\ algorithm = "RoundRobin"
    /\ round_robin_index = 0
    /\ last_random_ip = {}
    /\ rr_lock = {}
    /\ rnd_lock = {}
    /\ pc = [c \in Callers |-> "idle"]
    /\ selected = [c \in Callers |-> 0]
    /\ returned = <<>>
    /\ calls = 0
    /\ log = <<>>
    /\ new_ips = <<>>
    /\ new_algorithm = "RoundRobin"
    /\ new_fails = {}
    /\ new_result = NewPending
    /\ PollInit
    /\ TxnInit

\* a pool from either constructor, new or default
AnyInit == Init \/ DefaultInit

AnyNext ==
    \/ PoolNext
    \/ \E c \in Callers : GetClientEmpty(c)

\* get_client on a pool built by HttpClient::new or by HttpClient::default
AnySpec == AnyInit /\ [][AnyNext]_vars

\* one bundle confirmation session, from the submission to main's return; the
\* example hands the SDK no address list and no algorithm (the default)
SessionInit ==
    /\ Init
    /\ clients = BuildClients(Ips(0))
    /\ algorithm = "RoundRobin"

PollSpec == SessionInit /\ [][PollNext]_vars

\* one confirmation of a plain transaction, from the first query to main's return
TxnSpec == SessionInit /\ [][TxnNext]_vars

(***************************************************************************)
(* HttpClient::new, from its arguments to its result                       *)
(***************************************************************************)
\* the address lists: up to MaxIps local addresses out of 1..MaxIps, repeats allowed
IpLists == UNION {[1..n -> 1..MaxIps] : n \in 0..MaxIps}

\* before new returns there is no HttpClient: no client, no caller
NewInit ==
    /\ new_ips \in IpLists
    /\ new_algorithm \in Algorithms
    /\ new_fails \in SUBSET (1..MaxIps)
    /\ new_result = NewPending
    /\ clients = <<>>
    /\ algorithm = "RoundRobin"
    /\ round_robin_index = 0
    /\ last_random_ip = {}
    /\ rr_lock = {}
    /\ rnd_lock = {}
    /\ pc = [c \in Callers |-> "idle"]
    /\ selected = [c \in Callers |-> 0]
    /\ returned = <<>>
    /\ calls = 0
    /\ log = <<>>
    /\ PollInit
    /\ TxnInit

\* lines 31-51: HttpClient::new
New ==
    /\ new_result = NewPending
    /\ LET r == NewClients(new_ips, new_fails)
       IN IF r.ok
          THEN /\ clients' = r.clients
               /\ algorithm' = new_algorithm
               /\ round_robin_index' = 0
               /\ last_random_ip' = {}
               /\ new_result' = NewOk
          ELSE /\ \E ip \in r.err : new_result' = BindFailed(ip)
               /\ UNCHANGED <<clients, algorithm, round_robin_index, last_random_ip>>
    /\ UNCHANGED <<rr_lock, rnd_lock, pc, selected, returned, calls, log>>
    /\ UNCHANGED <<new_ips, new_algorithm, new_fails>>
    /\ UNCHANGED <<pollVars, txnVars>>

NewNext == New

NewSpec == NewInit /\ [][NewNext]_vars

(***************************************************************************)
(* Claims about HttpClient, checked under Spec                             *)
(***************************************************************************)
N == Len(clients)

\* the callers between taking the mutex and dropping its guard
InCritical == {c \in Callers : pc[c] \in {"locked", "selected", "written"}}

\* C1: round-robin selection: the k-th selection (k = 0, 1, ...) of a fresh pool of
\* N >= 1 clients uses index k mod N, so each window of N selections that begins at
\* a multiple of N visits every index once, in construction order, and a returned
\* client is the one built for that position of the address list.
C1_RoundRobinOrder ==
    algorithm = "RoundRobin" =>
        /\ \A k \in 1..Len(log) : log[k] = (k - 1) % N
        /\ \A w \in 0..MaxCalls :
              (w + 1) * N <= Len(log) =>
                  /\ \A i \in 1..N : log[w * N + i] = i - 1
                  /\ {log[w * N + i] : i \in 1..N} = 0..(N - 1)
        /\ returned # <<>> =>
              returned[2] = (IF clients = <<0>> THEN 0 ELSE Ips(N)[returned[1] + 1])

\* C1 witness: a pool of three clients has served two full round-robin windows
C1_Witness ==
    /\ algorithm = "RoundRobin"
    /\ N = 3
    /\ Len(log) >= 6
    /\ \A c \in Callers : pc[c] = "idle"

\* C2: random-no-repeat selection: with N >= 2 clients no selection uses the index
\* of the selection immediately before it; with one client every selection uses
\* index 0, so the index repeats.
C2_RandomNoRepeat ==
    algorithm = "Random" =>
        /\ N >= 2 => \A k \in 1..(Len(log) - 1) : log[k + 1] # log[k]
        /\ N = 1 => \A k \in 1..Len(log) : log[k] = 0
        /\ \A k \in 1..Len(log) : log[k] \in 0..(N - 1)

\* C2 witness: random selections of a pool of three, the first of which did not
\* pick index 0, and an index that came back after one other selection
C2_Witness ==
    /\ algorithm = "Random"
    /\ N = 3
    /\ Len(log) >= 4
    /\ log[1] = 2
    /\ log[3] = log[1]

\* C3: under any interleaving of callers sharing a pool of N >= 2 clients a selection's
\* read, compute and write happen with the mutex held by that caller alone: at most
\* one caller is between lock and unlock, it is the holder, no update is lost (the
\* round-robin cursor is the number of completed writes mod N; the last random index
\* is the latest written selection), any N round-robin selections in a row are
\* distinct, and two random selections in a row differ.
C3_AtomicSelection ==
    N >= 2 =>
        /\ Cardinality(InCritical) <= 1
        /\ Cardinality(rr_lock) <= 1 /\ Cardinality(rnd_lock) <= 1
        /\ InCritical = (IF algorithm = "RoundRobin" THEN rr_lock ELSE rnd_lock)
        /\ (IF algorithm = "RoundRobin" THEN rnd_lock ELSE rr_lock) = {}
        /\ LET pending == Cardinality({c \in Callers : pc[c] = "selected"})
               written == Len(log) - pending
           IN IF algorithm = "RoundRobin"
              THEN /\ round_robin_index = written % N
                   /\ last_random_ip = {}
                   /\ \A k \in 1..Len(log) : \A j \in 1..Len(log) :
                         (k < j /\ j - k < N) => log[k] # log[j]
              ELSE /\ round_robin_index = 0
                   /\ last_random_ip = (IF written = 0 THEN {} ELSE {log[written]})
                   /\ \A k \in 1..(Len(log) - 1) : log[k] # log[k + 1]

\* C3 witness: one caller is inside the critical section with its selection made
\* while another, which selected before it, has unlocked and not yet returned
C3_Witness ==
    /\ N >= 2
    /\ \E c \in Callers : \E d \in Callers :
          /\ c # d
          /\ pc[c] = "selected"
          /\ pc[d] = "unlocked"
    /\ Len(log) >= N + 1

(***************************************************************************)
(* Claims about the bundle confirmation polling, checked under PollSpec    *)
(***************************************************************************)
\* the attempt budget of the phase a query belongs to
Budget(p) == IF p = 1 THEN max_retries ELSE final_max_retries

\* the most recent query was a final-status query answered with this tier and an
\* error payload of the given set of fields
LastFinal(tier, errs) ==
    /\ lastPoll.phase = 2
    /\ \E err \in errs : \E txs \in TxFields :
          lastResp = FinalReply({JStr(tier)}, err, txs)

\* error payloads that are absent or null, and those that are present and not null
CleanErrFields == {{}, {JNull}}
NonNullErrFields == ErrFields \ CleanErrFields

\* C4: phase 1: once an in-flight query has observed Failed (no Landed or Failed
\* before it), the session is over with the relay-failure outcome at that very
\* attempt: no in-flight query follows it, whatever budget is left, and no
\* final-status query is ever issued.
C4_FailedAborts ==
    (failedAt > 0 /\ landedAt = 0) =>
        /\ phase = "done"
        /\ outcome = ErrFailed
        /\ polls1 = failedAt
        /\ polls2 = 0
        /\ lastPoll = [phase |-> 1, attempt |-> failedAt]
        /\ lastResp = InFlightReply("Failed")

\* C4 witness: Failed observed at attempt 2 of 30, the session over
C4_Witness ==
    /\ failedAt = 2
    /\ landedAt = 0
    /\ phase = "done"
    /\ polls1 < max_retries

\* C5: phase 1: once Landed has been observed at attempt k (no Failed before it),
\* phase 2 has been entered with exactly k in-flight queries issued, and none is
\* issued later; phase 2 is never entered, and no final-status query issued, before
\* Landed has been observed.
C5_LandedAdvances ==
    /\ (landedAt > 0 /\ failedAt = 0) =>
          /\ landedAt \in 1..max_retries
          /\ polls1 = landedAt
          /\ phase = "final" \/ (phase = "done" /\ polls2 >= 1)
          /\ polls2 = 0 => (phase = "final" /\ attempt = 1 /\ outcome = OutcomeNone)
    /\ (phase = "final" \/ polls2 > 0) => landedAt > 0

\* C5 witness: the sequence Pending, Pending, Landed has just entered phase 2
C5_Witness ==
    /\ landedAt = 3
    /\ ~transientSeen
    /\ failedAt = 0
    /\ phase = "final"
    /\ polls1 = 3
    /\ polls2 = 0

\* C6: phase 1: thirty in-flight queries that all observed Pending end the session,
\* after exactly thirty queries and without any final-status query, with the
\* exhaustion outcome; that outcome is produced in no other way and differs from
\* the outcome of a relay-reported Failed, which is produced only when Failed was
\* observed; fewer than thirty Pending observations leave the session polling.
C6_PendingExhausts ==
    /\ (~transientSeen /\ landedAt = 0 /\ failedAt = 0) =>
          IF polls1 = max_retries
          THEN phase = "done" /\ outcome = ErrInFlightExhausted /\ polls2 = 0
          ELSE phase = "inflight" /\ outcome = OutcomeNone /\ polls1 < max_retries
    /\ outcome = ErrInFlightExhausted =>
          polls1 = max_retries /\ polls2 = 0 /\ landedAt = 0 /\ failedAt = 0
    /\ outcome = ErrFailed => (failedAt > 0 /\ outcome # ErrInFlightExhausted)

\* C6 witness: thirty Pending observations and nothing else
C6_Witness ==
    /\ polls1 = max_retries
    /\ ~transientSeen
    /\ landedAt = 0
    /\ failedAt = 0
    /\ lastResp = InFlightReply("Pending")
    /\ phase = "done"

\* C7: phase 2: a final-status query answered confirmed or finalized with an error
\* payload that is present and not null, of any shape, ends the session at that
\* query with the execution-error outcome; finalized with such a payload is never
\* a success.
C7_ExecutionErrorFatal ==
    (LastFinal("confirmed", NonNullErrFields) \/ LastFinal("finalized", NonNullErrFields)) =>
        /\ phase = "done"
        /\ outcome = ErrTransaction
        /\ polls2 = lastPoll.attempt

\* C8: phase 2: confirmed with a null or absent error payload does not end the
\* session (the next attempt follows while budget remains); finalized with a null or
\* absent error payload ends it with success at that query; success is produced
\* only at a query that observed finalized.
C8_ConfirmedWaitsFinalizedSucceeds ==
    /\ LastFinal("confirmed", CleanErrFields) =>
          IF lastPoll.attempt < final_max_retries
          THEN phase = "final" /\ outcome = OutcomeNone /\ attempt = lastPoll.attempt + 1
          ELSE phase = "done" /\ outcome = ErrFinalExhausted
    /\ LastFinal("finalized", CleanErrFields) =>
          phase = "done" /\ outcome = OutcomeOk /\ polls2 = lastPoll.attempt
    /\ outcome = OutcomeOk =>
          /\ phase = "done"
          /\ LastFinal("finalized", ErrFields)
          /\ polls2 = lastPoll.attempt

\* C8 witness: success at the tenth final-status query, which none of the nine
\* before it ended
C8_Witness ==
    /\ LastFinal("finalized", CleanErrFields)
    /\ lastPoll.attempt = final_max_retries
    /\ outcome = OutcomeOk

MalformedInFlight ==
    BadEnvelopes \cup { ValueReply(JArr(<<JObj(NoFields)>>)),
                        ValueReply(JArr(<<JObj("status" :> JNum(1))>>)) }
MalformedFinal ==
    BadEnvelopes \cup { FinalReply(tier, err, txs) :
                           tier \in {{}, {JNum(1)}}, err \in ErrFields, txs \in TxFields }

\* C10: a malformed answer to a status query (no result, no value, a value that is
\* no array, an empty status array, a status field missing or not a string) is
\* transient in both phases: while budget remains the session goes on to the
\* next attempt.
C10_MalformedTransient ==
    /\ (lastPoll.phase = 1 /\ lastResp \in MalformedInFlight
          /\ lastPoll.attempt < max_retries) =>
          phase = "inflight" /\ outcome = OutcomeNone /\ attempt = lastPoll.attempt + 1
    /\ (lastPoll.phase = 2 /\ lastResp \in MalformedFinal
          /\ lastPoll.attempt < final_max_retries) =>
          phase = "final" /\ outcome = OutcomeNone /\ attempt = lastPoll.attempt + 1

\* the in-flight replies carrying Invalid or a status string the match does not know
InvalidReplies == {InFlightReply("Invalid"), InFlightReply("Dropped")}

\* C11: phase 1: Invalid and any unrecognized status string are transient and use up
\* one attempt of the same counter: the next attempt follows (the exhaustion outcome
\* after the thirtieth), a Landed observed later still enters phase 2, a Failed observed
\* later still aborts, and the in-flight queries never exceed thirty.
C11_InvalidTransient ==
    /\ (lastPoll.phase = 1 /\ lastResp \in InvalidReplies) =>
          IF lastPoll.attempt < max_retries
          THEN phase = "inflight" /\ outcome = OutcomeNone /\ attempt = lastPoll.attempt + 1
          ELSE phase = "done" /\ outcome = ErrInFlightExhausted
    /\ polls1 <= max_retries
    /\ phase = "inflight" => attempt = polls1 + 1
    /\ (invalidSeen /\ landedAt > 0 /\ failedAt = 0) =>
          /\ polls1 = landedAt
          /\ phase = "final" \/ (phase = "done" /\ polls2 >= 1)
    /\ (invalidSeen /\ failedAt > 0 /\ landedAt = 0) =>
          phase = "done" /\ outcome = ErrFailed /\ polls1 = failedAt /\ polls2 = 0

\* C11 witness: Invalid was observed and Landed, at the thirtieth attempt, entered phase 2
C11_Witness ==
    /\ invalidSeen
    /\ landedAt = max_retries
    /\ phase = "final"
    /\ polls2 = 0

\* every result main can return
Outcomes ==
    {OutcomeOk, ErrTransport, ErrFailed, ErrInFlightExhausted, ErrFinalExhausted,
     ErrParse, ErrTransaction}

\* the session's outcome follows a terminal status or the end of a phase's budget
TerminalOrBudget ==
    \/ lastPoll.phase = 1 /\ lastResp = InFlightReply("Failed")
    \/ LastFinal("finalized", ErrFields)
    \/ LastFinal("confirmed", NonNullErrFields)
    \/ lastPoll.phase = 1 /\ polls1 = max_retries /\ lastPoll.attempt = max_retries
    \/ lastPoll.phase = 2 /\ polls2 = final_max_retries
          /\ lastPoll.attempt = final_max_retries

FirstSignature(txs) ==
    IF txs = {JArr(<<JStr("sig1"), JStr("sig2")>>)} THEN {"sig1"}
    ELSE IF txs = {JArr(<<JNum(1), JStr("sig2")>>)} THEN {"sig2"}
    ELSE {}

\* phase 1 observed only Pending and then Landed, phase 2 only confirmed and then
\* finalized, all with a clean err
CleanRun ==
    /\ ~transientSeen /\ failedAt = 0 /\ landedAt > 0
    /\ ~finalOtherSeen
    /\ LastFinal("finalized", CleanErrFields)

\* C13 as stated: a clean run ends in success, and a success always comes with the
\* first transaction signature of the bundle.
C13_SuccessCarriesSignature ==
    /\ CleanRun => (phase = "done" /\ outcome = OutcomeOk)
    /\ outcome = OutcomeOk => shown # {}

\* C13 as amended: a clean run ends in success; a success logs the first string of
\* the finalized reply's transactions array, and is returned with nothing logged
\* when that field is absent, no array, or holds no string; nothing is logged
\* without success.
C13_SuccessLogsFirstSignature ==
    /\ CleanRun => (phase = "done" /\ outcome = OutcomeOk)
    /\ outcome = OutcomeOk =>
          \E err \in ErrFields : \E txs \in TxFields :
              /\ lastResp = FinalReply({JStr("finalized")}, err, txs)
              /\ shown = FirstSignature(txs)
    /\ outcome # OutcomeOk => shown = {}

\* C13 witness: Pending, Landed, then confirmed, finalized: success with sig1 logged
C13_Witness ==
    /\ CleanRun
    /\ landedAt = 2
    /\ polls2 = 2
    /\ outcome = OutcomeOk
    /\ shown = {"sig1"}

\* the failures that are no swallowed transient condition
ReportedFailures == {ErrFailed, ErrTransaction, ErrInFlightExhausted, ErrFinalExhausted}

\* C14 as stated: a relay-reported Failed, an execution error and an exhaustion each
\* carry the attempt at which they occurred and the last observed status.
C14_FailuresCarryContext ==
    outcome \in ReportedFailures =>
        /\ CarriedAttempt(outcome) = {lastPoll.attempt}
        /\ CarriedStatus(outcome) # {}

\* C14 as amended: the failures are bare messages: the relay-reported Failed names the
\* status and no attempt; an exhaustion names the number of attempts made, which is
\* the attempt it occurred at, and no status; an execution error names neither.
C14_FailureMessages ==
    /\ outcome = ErrFailed =>
          (CarriedStatus(outcome) = {"Failed"} /\ CarriedAttempt(outcome) = {}
             /\ lastResp = InFlightReply("Failed"))
    /\ outcome \in {ErrInFlightExhausted, ErrFinalExhausted} =>
          (CarriedAttempt(outcome) = {lastPoll.attempt} /\ CarriedStatus(outcome) = {}
             /\ lastPoll.attempt = Budget(lastPoll.phase))
    /\ outcome = ErrTransaction =>
          (CarriedAttempt(outcome) = {} /\ CarriedStatus(outcome) = {})

\* C14 witness: Failed at the fifth attempt: the outcome names no attempt
C14_Witness ==
    /\ outcome = ErrFailed
    /\ lastPoll = [phase |-> 1, attempt |-> 5]
    /\ CarriedAttempt(outcome) = {}

\* C18: every polling session ends, given that every status query is answered:
\* phase 1 issues at most 30 in-flight queries; phase 2 issues at most 10 final-status
\* queries, counted from 1 whatever phase 1 used (Landed at attempt 30 still has all
\* 10); and a session in which no final-status query observed finalized or an
\* execution error ends with the timeout failure after exactly 10 final-status queries.
C18_BoundedSession ==
    /\ polls1 <= max_retries
    /\ polls2 <= final_max_retries
    /\ phase = "inflight" => (attempt = polls1 + 1 /\ attempt <= max_retries)
    /\ phase = "final" =>
          (attempt = polls2 + 1 /\ attempt <= final_max_retries /\ landedAt = polls1)
    /\ (/\ phase = "done"
        /\ lastPoll.phase = 2
        /\ lastResp # TransportError
        /\ ~execErrSeen
        /\ ~LastFinal("finalized", ErrFields)) =>
          (outcome = ErrFinalExhausted /\ polls2 = final_max_retries)

\* the in-flight queries stopped at the one that observed Landed, and phase 1 is not
\* re-entered
AfterLanded ==
    landedAt > 0 =>
        /\ polls1 = landedAt
        /\ phase \in {"final", "done"}
        /\ phase = "done" => (polls2 >= 1 /\ lastPoll.phase = 2)
        /\ outcome \notin {ErrInFlightExhausted, ErrFailed}

FailingPositions == {i \in 1..Len(new_ips) : new_ips[i] \in new_fails}

\* C15: construction is all-or-nothing: an empty address list gives a pool of exactly
\* one client; a list of N addresses gives either a pool of exactly N clients in the
\* order of the list, or, when the client of some address fails to build, BindFailed
\* naming the first failing address and no pool at all.
C15_AllOrNothing ==
    /\ new_result = NewPending => clients = <<>>
    /\ new_result # NewPending =>
          /\ new_ips = <<>> => (new_result = NewOk /\ Len(clients) = 1)
          /\ (new_ips # <<>> /\ FailingPositions = {}) =>
                /\ new_result = NewOk
                /\ Len(clients) = Len(new_ips)
                /\ \A i \in 1..Len(new_ips) : clients[i] = new_ips[i]
          /\ FailingPositions # {} =>
                /\ \E i \in FailingPositions :
                      /\ \A j \in FailingPositions : i <= j
                      /\ new_result = BindFailed(new_ips[i])
                /\ clients = <<>>
          /\ new_result = NewOk =>
                /\ algorithm = new_algorithm
                /\ round_robin_index = 0
                /\ last_random_ip = {}

\* C15 witness: the first address builds, the second and third fail: BindFailed names
\* the second and the client built for the first is dropped
C15_Witness ==
    /\ new_ips = <<1, 2, 3>>
    /\ new_fails = {2, 3}
    /\ new_result = BindFailed(2)
    /\ clients = <<>>

(***************************************************************************)
(* Further claims about HttpClient, checked under Spec                     *)
(***************************************************************************)
\* C16: a pool of exactly one client (empty address list or a single address): every
\* get_client call returns that client, the round-robin cursor and the last-random
\* index stay as constructed, and no lock is ever taken, under either algorithm.
C16_SingleClientDirect ==
    N = 1 =>
        /\ returned \in {<<>>, <<0, clients[1]>>}
        /\ calls > 0 => returned = <<0, clients[1]>>
        /\ Len(log) = calls
        /\ \A k \in 1..Len(log) : log[k] = 0
        /\ round_robin_index = 0
        /\ last_random_ip = {}
        /\ rr_lock = {} /\ rnd_lock = {}
        /\ \A c \in Callers : pc[c] = "idle"

\* C16 witness: a pool built from a single address, random mode, three calls served
C16_Witness ==
    /\ clients = <<1>>
    /\ algorithm = "Random"
    /\ calls >= 3
    /\ returned = <<0, 1>>

\* the positions a caller goes through, in order, in one get_client call on N >= 2 clients
CallOrder ==
    {<<"idle", "calling">>, <<"calling", "locked">>, <<"locked", "selected">>, <<"selected", "written">>,
     <<"written", "unlocked">>, <<"unlocked", "idle">>}

\* the callers whose call performs its write of the rotation state in this step
Writers == {c \in Callers : pc[c] = "selected" /\ pc'[c] = "written"}

\* the callers whose call returns in this step
Returners == {c \in Callers : pc[c] = "unlocked" /\ pc'[c] = "idle"}

\* what a step does to the shared state of a pool of N >= 2 clients
RotationStep ==
    N >= 2 =>
        /\ clients' = clients
        /\ algorithm' = algorithm
        /\ \A c \in Callers :
              /\ pc'[c] # pc[c] => <<pc[c], pc'[c]>> \in CallOrder
              /\ pc[c] \in {"selected", "written", "unlocked"} /\ pc'[c] # "idle"
                    => selected'[c] = selected[c]
        /\ Writers = {} =>
              /\ round_robin_index' = round_robin_index
              /\ last_random_ip' = last_random_ip
        /\ \A c \in Writers :
              IF algorithm = "RoundRobin"
              THEN /\ round_robin_index' = (round_robin_index + 1) % N
                   /\ last_random_ip' = last_random_ip
              ELSE /\ last_random_ip' = {selected[c]}
                   /\ round_robin_index' = round_robin_index
        /\ \A c \in Returners : returned' = <<selected[c], clients[selected[c] + 1]>>

\* the calls that have written the rotation state so far
Written == Len(log) - Cardinality({c \in Callers : pc[c] = "selected"})

\* C17: each get_client call on a pool of N >= 2 clients changes the shared pool
\* state by exactly one rotation step of the configured algorithm and nothing else:
\* round-robin: the cursor becomes (cursor + 1) mod N, the last-random index is
\* untouched; random: the last-random index becomes the index the call returns, the
\* cursor is untouched; the client list never changes.
C17_OneRotationStepPerCall ==
    /\ [](N >= 2 =>
            /\ algorithm = "RoundRobin" =>
                  (round_robin_index = Written % N /\ last_random_ip = {})
            /\ algorithm = "Random" =>
                  (round_robin_index = 0 /\ (Written = 0 <=> last_random_ip = {})))
    /\ [][RotationStep]_vars

\* C17 witness: in a pool of three clients, random mode, a call has just written the
\* index it selected, after earlier calls were served
C17_Witness ==
    /\ N = 3
    /\ algorithm = "Random"
    /\ calls >= 3
    /\ \E c \in Callers :
          /\ pc[c] = "written"
          /\ last_random_ip = {selected[c]}
          /\ selected[c] = 2

(***************************************************************************)
(* Claims about HttpClient under a fair scheduler, checked under FairSpec  *)
(***************************************************************************)
\* the locks a caller holds
Held(c) == {l \in {"round_robin_index", "last_random_ip"} :
               c \in (IF l = "round_robin_index" THEN rr_lock ELSE rnd_lock)}

\* a caller holds exactly the lock of the configured algorithm while it selects, and
\* none while it waits for a lock, after select_client dropped the guard, or outside
\* get_client, where the returned client is used for the network call
LockDiscipline ==
    \A c \in Callers :
        /\ pc[c] \in {"locked", "selected", "written"} =>
              Held(c) = {IF algorithm = "RoundRobin" THEN "round_robin_index"
                         ELSE "last_random_ip"}
        /\ pc[c] \in {"idle", "calling", "unlocked"} => Held(c) = {}

\* C19: the rotation lock is never held across a network call or across a wait for
\* another lock: each selection takes exactly one of the two locks and releases it
\* before get_client returns, so under a fair scheduler every get_client call of every
\* concurrent caller eventually returns.
C19_LockReleasedCallsReturn ==
    /\ []LockDiscipline
    /\ \A c \in Callers : (pc[c] # "idle") ~> (pc[c] = "idle")

\* C19 witness: one caller is blocked in lock() while the other holds the guard
C19_Witness ==
    /\ N = 2
    /\ pc[1] = "calling"
    /\ pc[2] = "written"
    /\ Held(2) = {"round_robin_index"}
    /\ Held(1) = {}

(***************************************************************************)
(* Claims about the transaction confirmation, checked under TxnSpec        *)
(***************************************************************************)
\* C20: confirmation of a plain transaction: a signature status not yet known is
\* transient and retried, for at most 30 queries; the first query returning an
\* execution error ends at once with failure; the first query returning a success
\* status ends with success; 30 queries all answered not yet known end with the
\* "not confirmed after 30 attempts" failure, never with success.
C20_SignatureStatusPolling ==
    /\ txn_polls <= txn_max_retries
    /\ txn_pc = "loop" =>
          /\ txn_attempt = txn_polls + 1
          /\ txn_polls < txn_max_retries
          /\ txn_outcome = TxnRunning
          /\ txn_polls > 0 => txn_last = TxnNone
    /\ txn_last = TxnNone =>
          IF txn_polls < txn_max_retries
          THEN txn_pc = "loop"
          ELSE /\ txn_pc \in {"after", "done"}
               /\ ~txn_confirmed
               /\ txn_outcome = (IF txn_pc = "done" THEN TxnErrNotConfirmed ELSE TxnRunning)
    /\ \A e \in TxnErrors :
          txn_last = TxnSomeErr(e) =>
              (txn_pc = "done" /\ txn_outcome = TxnErrFailed({e}))
    /\ txn_last = TxnSomeOk =>
          /\ txn_pc \in {"after", "done"}
          /\ txn_confirmed
          /\ txn_outcome = (IF txn_pc = "done" THEN TxnOk ELSE TxnRunning)
    /\ txn_outcome = TxnOk => (txn_last = TxnSomeOk /\ txn_confirmed)
    /\ txn_outcome = TxnErrNotConfirmed =>
          (txn_polls = txn_max_retries /\ txn_last = TxnNone)
    /\ (txn_pc = "done") <=> (txn_outcome # TxnRunning)

\* C20 witness: thirty queries all answered not yet known, and main returned
C20_Witness ==
    /\ txn_polls = txn_max_retries
    /\ txn_last = TxnNone
    /\ txn_pc = "done"
    /\ txn_outcome = TxnErrNotConfirmed

(***************************************************************************)
(* Claims about HttpClient built by either constructor, checked under      *)
(* AnySpec                                                                 *)
(***************************************************************************)
\* C21: in every reachable state of a pool of N clients the round-robin cursor is in
\* 0..N-1 and the last-random index is unset or in 0..N-1, so the index that picks a
\* client is in bounds and selection never fails; the empty-candidates fallback of
\* the random arm is never taken on the multi-client path.
C21_SelectionInBounds ==
    /\ round_robin_index \in 0..(N - 1)
    /\ last_random_ip \subseteq 0..(N - 1)
    /\ \A c \in Callers :
          /\ pc[c] # "panicked"
          /\ pc[c] \in {"selected", "written", "unlocked"} => selected[c] \in 0..(N - 1)
          /\ (pc[c] = "locked" /\ algorithm = "Random") =>
                Candidates(last_random_ip, N) # {}
    /\ returned # <<>> => returned[1] \in 0..(N - 1)
    /\ \A k \in 1..Len(log) : log[k] \in 0..(N - 1)

====
